---------------------------- MODULE Spec2Model ----------------------------
(***************************************************************************)
(* Model of the face search of express_queue: find_similar_faces and its   *)
(* batch scheduler process_image_batch (src/face_searching.py).            *)
(*                                                                         *)
(* A face descriptor is a point on a line, in hundredths; the distance of  *)
(* two descriptors is the absolute difference (the Euclidean norm of       *)
(* face_recognition.face_distance in one dimension).  A similarity score   *)
(* is kept in hundredths too: 1 - d is 100 - d.                            *)
(***************************************************************************)
EXTENDS Integers, Sequences, FiniteSets, TLC

VARIABLES
    selfie_path,        \* the query image handed to find_similar_faces
    photos,             \* candidate paths under photos_dir, in os.walk order
    exclude_files,      \* image paths under exclude_dir, in os.walk order
    top_k,              \* parameter top_k
    output_dir,         \* parameter output_dir: "None" or a directory
    embed_images,       \* parameter embed_images
    cancelled,          \* the Event: TRUE when set
    pc,                 \* position of the coordinator inside the call
    selfie_encoding,    \* selfie_faces[0]
    exclude_encodings,  \* descriptors loaded from exclude_dir
    i,                  \* start index of the current batch (0-based)
    fut,                \* state of the future of each candidate path
    collected,          \* futures as_completed has already yielded
    results,            \* the list process_image_batch accumulates
    matches,            \* the ranked list of line 167
    idx,                \* enumerate index of the materialization loop
    saved_results,      \* the list the materialization loop accumulates
    files,              \* the output area: the snapshot files in it
    now,                \* int(time.time()) as last read
    run,                \* number of the find_similar_faces call
    outcome,            \* "none" while running, "returned", or the exception
    ret,                \* the returned list
    submitted,          \* how many times each path was submitted in this call
    overwritten,        \* snapshot names of an earlier call written again
    step_log,           \* what happened to each ranked match, by index
    app                 \* the api_search request around the call (app.py)

vars == <<selfie_path, photos, exclude_files, top_k, output_dir, embed_images,
          cancelled, pc, selfie_encoding, exclude_encodings, i, fut, collected,
          results, matches, idx, saved_results, files, now, run, outcome, ret,
          submitted, overwritten, step_log, app>>

(***************************************************************************)
(* Bounds of the model.                                                    *)
(***************************************************************************)
MaxPhotos == 3
MaxTopK == 3
MaxClock == 2
MaxRuns == 2
\* batch_size and max_workers of process_image_batch, scaled down from their
\* defaults (50 and 4) so that a corpus of MaxPhotos spans several batches
\* and a batch can exceed the pool.
BatchSize == 2
MaxWorkers == 1

\* The exclusion threshold 0.5, in hundredths.
ExcludeThreshold == 50

(***************************************************************************)
(* The images on disk.  Each has what cv2.imread makes of it, the          *)
(* descriptors face_encodings finds in it, and its suffix.                 *)
(***************************************************************************)
Image(load, encs, suffix) == [load |-> load, encs |-> encs, suffix |-> suffix]

Disk ==
    [ A |-> Image("ok", <<10>>, ".jpg"),        \* distance 0.10 to the query
      B |-> Image("ok", <<>>, ".jpg"),          \* no face
      C |-> Image("ok", <<30>>, ".png"),        \* distance 0.30
      D |-> Image("ok", <<30, 90>>, ".jpg"),    \* second face 0.49 from X
      E |-> Image("ok", <<89, 20>>, ".png"),    \* first face 0.50 from X
      F |-> Image("none", <<>>, ".jpg"),        \* cv2.imread returns None
      G |-> Image("crash", <<15>>, ".jpg"),     \* the task's future raises
      H |-> Image("raises", <<25>>, ".png"),    \* face_encodings raises
      S0 |-> Image("none", <<>>, ".jpg"),       \* selfie that cannot be read
      S1 |-> Image("ok", <<>>, ".jpg"),         \* selfie without a face
      S2 |-> Image("ok", <<0, 28>>, ".jpg"),    \* selfie with two faces
      X |-> Image("ok", <<139, 300>>, ".jpg"),  \* a face to exclude
      Y |-> Image("none", <<>>, ".png") ]       \* unreadable exclusion image

Candidates == {"A", "B", "C", "D", "E", "F", "G", "H"}
Selfies == {"S0", "S1", "S2"}
ExcludeDirs == {<<>>, <<"Y", "X">>}

\* Sequences over S without repetition, of length at most n.
SeqsUpTo(S, n) ==
    UNION {{s \in [1..m -> S] : \A a, b \in 1..m : a # b => s[a] # s[b]} :
           m \in 0..n}

Min(a, b) == IF a <= b THEN a ELSE b
Abs(a) == IF a < 0 THEN -a ELSE a
Range(s) == {s[j] : j \in DOMAIN s}

(***************************************************************************)
(* Pure functions of the source.                                           *)
(***************************************************************************)
\* preprocess_image: None when the image cannot be loaded, else the buffer
\* (stood for by the path itself).
preprocess_image(path) ==
    IF Disk[path].load = "none" THEN "None" ELSE path

\* face_recognition.face_encodings on a loaded buffer.
face_encodings(img) == Disk[img].encs

\* face_recognition.face_distance(encs, enc): one distance per descriptor.
face_distance(encs, enc) == [j \in DOMAIN encs |-> Abs(encs[j] - enc)]

\* A variant of is_excluded that looks at the first face of the image only.
is_excluded_first_face(encodings, excl) ==
    /\ excl # <<>>
    /\ \E d \in Range(face_distance(excl, encodings[1])) :
          d < ExcludeThreshold

\* Lines 62-65: some descriptor of the image is within the threshold of some
\* exclusion descriptor.
is_excluded(encodings, excl) ==
    /\ excl # <<>>
    /\ \E e \in DOMAIN encodings :
          \E d \in Range(face_distance(excl, encodings[e])) :
              d < ExcludeThreshold

\* np.min of a non-empty sequence of distances.
np_min(ds) == CHOOSE m \in Range(ds) : \A d \in Range(ds) : m <= d

\* A variant of similarity that scores the first face of the image only.
similarity_first_face(encodings, selfie_enc) ==
    100 - face_distance(encodings, selfie_enc)[1]

\* Lines 67-68.
similarity(encodings, selfie_enc) ==
    100 - np_min(face_distance(encodings, selfie_enc))

\* The None a worker returns, written as the empty tuple: like None it is
\* falsy at line 104, and unlike a pair it has no path and no score.
None == <<>>

\* process_single_image (lines 47-76): None or (path, similarity).  An
\* exception raised inside the try is logged and None is returned (lines
\* 72-74).  A task that ends without a return value is the matter of
\* future_result.
process_single_image(path, selfie_enc, excl) ==
    LET img == preprocess_image(path)
    IN  IF img = "None" THEN None
        ELSE IF Disk[path].load = "raises" THEN None
        ELSE LET encodings == face_encodings(img)
             IN  IF encodings = <<>> THEN None
                 ELSE IF is_excluded(encodings, excl) THEN None
                 ELSE <<path, similarity(encodings, selfie_enc)>>

\* Lines 98-102: future.result(), with an exception of the future turned
\* into None.
future_result(path, selfie_enc, excl) ==
    IF Disk[path].load = "crash" THEN None
    ELSE process_single_image(path, selfie_enc, excl)

\* Lines 153-164: the descriptors of every readable image of exclude_dir.
RECURSIVE load_exclude(_)
load_exclude(paths) ==
    IF paths = <<>> THEN <<>>
    ELSE LET img == preprocess_image(paths[1])
             rest == load_exclude(Tail(paths))
         IN  IF img = "None" THEN rest ELSE face_encodings(img) \o rest

\* A variant of insert_desc that sorts ascending (reverse=True left out).
insert_asc(sorted, x) ==
    LET k == Cardinality({j \in DOMAIN sorted : sorted[j][2] <= x[2]})
    IN  SubSeq(sorted, 1, k) \o <<x>> \o SubSeq(sorted, k + 1, Len(sorted))

\* A variant of insert_desc that puts a result before the results of equal
\* score (a descending sort that is not stable).
insert_before_equal(sorted, x) ==
    LET k == Cardinality({j \in DOMAIN sorted : sorted[j][2] > x[2]})
    IN  SubSeq(sorted, 1, k) \o <<x>> \o SubSeq(sorted, k + 1, Len(sorted))

\* sorted(..., key=lambda x: x[1], reverse=True): a stable descending sort.
insert_desc(sorted, x) ==
    LET k == Cardinality({j \in DOMAIN sorted : sorted[j][2] >= x[2]})
    IN  SubSeq(sorted, 1, k) \o <<x>> \o SubSeq(sorted, k + 1, Len(sorted))

RECURSIVE sorted_desc(_)
sorted_desc(s) ==
    IF s = <<>> THEN <<>>
    ELSE insert_desc(sorted_desc(SubSeq(s, 1, Len(s) - 1)), s[Len(s)])

\* The slice [:k] for k >= 0.
slice_to(s, k) == SubSeq(s, 1, Min(k, Len(s)))

\* A variant of rank without the slice [:top_k].
rank_unsliced(rs, k) == sorted_desc(rs)

\* Line 167.
rank(rs, k) == slice_to(sorted_desc(rs), k)

\* A variant of saved_name without the index: f"match_{ts}{suffix}".
saved_name_no_index(ts, index, suffix) == <<"match", ts, 0, suffix>>

\* Line 185: f"match_{int(time.time())}_{idx}{suffix}".
saved_name(ts, index, suffix) == <<"match", ts, index, suffix>>

\* A variant of batch_of whose slice is one path too long, so that
\* consecutive batches overlap.
batch_of_overlap(paths, start) ==
    {paths[j] : j \in (start + 1)..Min(start + BatchSize + 1, Len(paths))}

\* A variant of batch_of without batching: everything left is one batch.
batch_of_all(paths, start) ==
    {paths[j] : j \in (start + 1)..Len(paths)}

\* Line 90: image_paths[i:i + batch_size], as the set of its paths.
batch_of(paths, start) ==
    {paths[j] : j \in (start + 1)..Min(start + BatchSize, Len(paths))}

\* The listings os.walk can give of photos_dir (lines 145-148): up to
\* MaxPhotos distinct candidates in any order.  The order of two paths of
\* one batch has no effect (the batch is submitted as a whole and collected
\* in completion order), so of the listings that differ only inside their
\* batches the one in alphabetical order stands for all.
Corpora ==
    LET Place == [A |-> 1, B |-> 2, C |-> 3, D |-> 4, E |-> 5, F |-> 6,
                  G |-> 7, H |-> 8]
    IN  {s \in SeqsUpTo(Candidates, MaxPhotos) :
            \A j \in 1..(Len(s) - 1) :
                ((j - 1) \div BatchSize = j \div BatchSize) =>
                    Place[s[j]] < Place[s[j + 1]]}

(***************************************************************************)
(* app.py: the request of api_search.  The two temporary directories are   *)
(* named after the variables that hold them.                               *)
(***************************************************************************)
TempDirs == {"tmp_upload_dir", "tmp_results_dir"}

\* Line 19.
ALLOWED_EXT == {".jpg", ".jpeg", ".png"}

\* Line 58: the default of the form field top_k.
DefaultTopK == 5

\* The "selfie" part of the request: <<>> when request.files has none, else
\* its filename as <<stem, suffix>>.
SelfieParts == {<<>>, <<"", "">>, <<"me", ".jpg">>, <<"me", ".PNG">>,
                <<"me", ".gif">>, <<"me", "">>}

\* The form field top_k: absent, not a number, or a numeral.
TopKFields == {"absent", "abc", "0", "2"}

\* str.lower() on the suffixes in use.
lower(suffix) == IF suffix = ".PNG" THEN ".png" ELSE suffix

\* Lines 25-26.
allowed_file(filename) ==
    /\ filename # <<"", "">>
    /\ lower(filename[2]) \in ALLOWED_EXT

\* Lines 57-60: int(request.form.get("top_k", 5)), 5 when int() raises.
parse_top_k(field) ==
    IF field = "absent" THEN DefaultTopK
    ELSE IF field = "0" THEN 0
    ELSE IF field = "2" THEN 2
    ELSE DefaultTopK

\* No request: find_similar_faces is called directly.
NoRequest ==
    [stage |-> "idle", selfie_file |-> <<>>, top_k_field |-> "absent",
     created |-> {}, dirs |-> {}, attempted |-> {}, raised |-> {},
     status |-> 0, matches |-> <<>>]

(***************************************************************************)
(* The state after construction: a call is about to start.                 *)
(***************************************************************************)
Init ==
    /\ selfie_path \in Selfies
    /\ photos \in Corpora
    /\ exclude_files \in ExcludeDirs
    /\ top_k \in 0..MaxTopK
    /\ output_dir \in {"None", "out"}
    /\ embed_images \in BOOLEAN
    /\ cancelled = FALSE
    /\ pc = "start"
    /\ selfie_encoding = 0
    /\ exclude_encodings = <<>>
    /\ i = 0
    /\ fut = [p \in Candidates |-> "none"]
    /\ collected = {}
    /\ results = <<>>
    /\ matches = <<>>
    /\ idx = 0
    /\ saved_results = <<>>
    /\ files = {}
    /\ now = 1
    /\ run = 1
    /\ outcome = "none"
    /\ ret = <<>>
    /\ submitted = [p \in Candidates |-> 0]
    /\ overwritten = {}
    /\ step_log = <<>>
    /\ app = NoRequest

(***************************************************************************)
(* find_similar_faces, lines 135-166: the query image, the corpus, the     *)
(* exclusion descriptors, and the entry into process_image_batch.          *)
(***************************************************************************)
Raise(exc) ==
    /\ outcome' = exc
    /\ pc' = "done"

Return(value) ==
    /\ outcome' = "returned"
    /\ ret' = value
    /\ pc' = "done"

\* A variant of LoadSelfie that answers a query image without a face with an
\* empty result list instead of raising.
LoadSelfie_empty_result ==
    /\ pc = "start"
    /\ LET selfie == preprocess_image(selfie_path)
       IN  IF selfie = "None"
           THEN /\ Raise("ValueError: Failed to load selfie image")
                /\ UNCHANGED <<selfie_encoding, exclude_encodings, ret>>
           ELSE LET selfie_faces == face_encodings(selfie)
                IN  IF selfie_faces = <<>>
                    THEN /\ Return(<<>>)
                         /\ UNCHANGED <<selfie_encoding, exclude_encodings>>
                    ELSE /\ selfie_encoding' = selfie_faces[1]
                         /\ exclude_encodings' = load_exclude(exclude_files)
                         /\ pc' = "batch"
                         /\ UNCHANGED <<outcome, ret>>
    /\ UNCHANGED <<selfie_path, photos, exclude_files, top_k, output_dir,
                   embed_images, cancelled, i, fut, collected, results,
                   matches, idx, saved_results, files, now, run,
                   submitted, overwritten, step_log, app>>

LoadSelfie ==
    /\ pc = "start"
    /\ LET selfie == preprocess_image(selfie_path)
       IN  IF selfie = "None"
           THEN /\ Raise("ValueError: Failed to load selfie image")
                /\ UNCHANGED <<selfie_encoding, exclude_encodings>>
           ELSE LET selfie_faces == face_encodings(selfie)
                IN  IF selfie_faces = <<>>
                    THEN /\ Raise("ValueError: No face found in selfie image")
                         /\ UNCHANGED <<selfie_encoding, exclude_encodings>>
                    ELSE /\ selfie_encoding' = selfie_faces[1]
                         /\ exclude_encodings' = load_exclude(exclude_files)
                         /\ pc' = "batch"
                         /\ UNCHANGED outcome
    /\ UNCHANGED <<selfie_path, photos, exclude_files, top_k, output_dir,
                   embed_images, cancelled, i, fut, collected, results,
                   matches, idx, saved_results, files, now, run, ret,
                   submitted, overwritten, step_log, app>>

(***************************************************************************)
(* process_image_batch, lines 79-110.                                      *)
(***************************************************************************)
\* A variant of BatchStart that does not look at the flag (lines 86-88 left
\* out).
BatchStart_no_check ==
    /\ pc = "batch"
    /\ IF i >= Len(photos)
       THEN /\ pc' = "rank"
            /\ UNCHANGED <<fut, collected, submitted>>
       ELSE /\ fut' = [p \in Candidates |->
                         IF p \in batch_of(photos, i) THEN "pending"
                         ELSE fut[p]]
            /\ submitted' = [p \in Candidates |->
                               IF p \in batch_of(photos, i)
                               THEN submitted[p] + 1 ELSE submitted[p]]
            /\ collected' = {}
            /\ pc' = "collect"
    /\ UNCHANGED cancelled
    /\ UNCHANGED <<selfie_path, photos, exclude_files, top_k, output_dir,
                   embed_images, selfie_encoding, exclude_encodings, i,
                   results, matches, idx, saved_results, files, now, run,
                   outcome, ret, overwritten, step_log, app>>

\* A variant of BatchStart that clears the Event once it has seen it set.
BatchStart_clears_flag ==
    /\ pc = "batch"
    /\ IF i >= Len(photos) \/ cancelled
       THEN /\ pc' = "rank"
            /\ cancelled' = FALSE
            /\ UNCHANGED <<fut, collected, submitted>>
       ELSE /\ fut' = [p \in Candidates |->
                         IF p \in batch_of(photos, i) THEN "pending"
                         ELSE fut[p]]
            /\ submitted' = [p \in Candidates |->
                               IF p \in batch_of(photos, i)
                               THEN submitted[p] + 1 ELSE submitted[p]]
            /\ collected' = {}
            /\ pc' = "collect"
            /\ UNCHANGED cancelled
    /\ UNCHANGED <<selfie_path, photos, exclude_files, top_k, output_dir,
                   embed_images, selfie_encoding, exclude_encodings, i,
                   results, matches, idx, saved_results, files, now, run,
                   outcome, ret, overwritten, step_log, app>>

\* Lines 85-92: the head of the batch loop.  The loop is over, or the flag
\* is set, or the batch is submitted to a fresh pool.
BatchStart ==
    /\ pc = "batch"
    /\ IF i >= Len(photos) \/ cancelled
       THEN /\ pc' = "rank"
            /\ UNCHANGED <<fut, collected, submitted>>
       ELSE /\ fut' = [p \in Candidates |->
                         IF p \in batch_of(photos, i) THEN "pending"
                         ELSE fut[p]]
            /\ submitted' = [p \in Candidates |->
                               IF p \in batch_of(photos, i)
                               THEN submitted[p] + 1 ELSE submitted[p]]
            /\ collected' = {}
            /\ pc' = "collect"
    /\ UNCHANGED <<selfie_path, photos, exclude_files, top_k, output_dir,
                   embed_images, cancelled, selfie_encoding,
                   exclude_encodings, i, results, matches, idx,
                   saved_results, files, now, run, outcome, ret, overwritten, step_log,
                   app>>

\* A pool process takes a queued task: at most max_workers run at a time.
WorkerStart(p) ==
    /\ fut[p] = "pending"
    /\ Cardinality({q \in Candidates : fut[q] = "running"}) < MaxWorkers
    /\ fut' = [fut EXCEPT ![p] = "running"]
    /\ UNCHANGED <<selfie_path, photos, exclude_files, top_k, output_dir,
                   embed_images, cancelled, pc, selfie_encoding,
                   exclude_encodings, i, collected, results, matches, idx,
                   saved_results, files, now, run, outcome, ret, submitted,
                   overwritten, step_log, app>>

\* The task ends (returns, or raises past its handler): the future is done.
WorkerFinish(p) ==
    /\ fut[p] = "running"
    /\ fut' = [fut EXCEPT ![p] = "done"]
    /\ UNCHANGED <<selfie_path, photos, exclude_files, top_k, output_dir,
                   embed_images, cancelled, pc, selfie_encoding,
                   exclude_encodings, i, collected, results, matches, idx,
                   saved_results, files, now, run, outcome, ret, submitted,
                   overwritten, step_log, app>>

\* A variant of Collect that looks at the flag after taking the result of
\* the future (lines 94-96 moved below line 105).
Collect_late_check(p) ==
    /\ pc = "collect"
    /\ p \in batch_of(photos, i) \ collected
    /\ fut[p] = "done"
    /\ LET result == future_result(p, selfie_encoding, exclude_encodings)
       IN  /\ collected' = collected \cup {p}
           /\ results' = IF result # None THEN Append(results, result)
                         ELSE results
    /\ pc' = IF cancelled THEN "rank" ELSE pc
    /\ UNCHANGED <<selfie_path, photos, exclude_files, top_k, output_dir,
                   embed_images, cancelled, selfie_encoding,
                   exclude_encodings, i, fut, matches, idx, saved_results,
                   files, now, run, outcome, ret, submitted, overwritten,
                   step_log, app>>

\* A variant of Collect that lets the exception of a future escape (lines
\* 98-102 without the try).
Collect_uncaught(p) ==
    /\ pc = "collect"
    /\ p \in batch_of(photos, i) \ collected
    /\ fut[p] = "done"
    /\ IF cancelled
       THEN /\ pc' = "rank"
            /\ UNCHANGED <<collected, results, outcome>>
       ELSE IF Disk[p].load = "crash"
       THEN /\ Raise("WorkerError")
            /\ UNCHANGED <<collected, results>>
       ELSE LET result == future_result(p, selfie_encoding, exclude_encodings)
            IN  /\ collected' = collected \cup {p}
                /\ results' = IF result # None THEN Append(results, result)
                              ELSE results
                /\ UNCHANGED <<pc, outcome>>
    /\ UNCHANGED <<selfie_path, photos, exclude_files, top_k, output_dir,
                   embed_images, cancelled, selfie_encoding,
                   exclude_encodings, i, fut, matches, idx, saved_results,
                   files, now, run, ret, submitted, overwritten, step_log,
                   app>>

\* Lines 93-105: as_completed yields a finished future of the batch.  With
\* the flag set the pool is shut down without waiting and the accumulated
\* list is returned; else the future's result is appended when truthy.
Collect(p) ==
    /\ pc = "collect"
    /\ p \in batch_of(photos, i) \ collected
    /\ fut[p] = "done"
    /\ IF cancelled
       THEN /\ pc' = "rank"
            /\ UNCHANGED <<collected, results>>
       ELSE LET result == future_result(p, selfie_encoding, exclude_encodings)
            IN  /\ collected' = collected \cup {p}
                /\ results' = IF result # None THEN Append(results, result)
                              ELSE results
                /\ UNCHANGED pc
    /\ UNCHANGED <<selfie_path, photos, exclude_files, top_k, output_dir,
                   embed_images, cancelled, selfie_encoding,
                   exclude_encodings, i, fut, matches, idx, saved_results,
                   files, now, run, outcome, ret, submitted, overwritten, step_log,
                   app>>

\* Lines 106-108: every future of the batch was yielded; the pool is closed
\* and the loop moves to the next batch.
BatchEnd ==
    /\ pc = "collect"
    /\ collected = batch_of(photos, i)
    /\ i' = i + BatchSize
    /\ pc' = "batch"
    /\ UNCHANGED <<selfie_path, photos, exclude_files, top_k, output_dir,
                   embed_images, cancelled, selfie_encoding,
                   exclude_encodings, fut, collected, results, matches, idx,
                   saved_results, files, now, run, outcome, ret, submitted,
                   overwritten, step_log, app>>

(***************************************************************************)
(* find_similar_faces, lines 167-177: ranking, and the choice of what to   *)
(* return.  Path(None) raises TypeError.                                   *)
(***************************************************************************)
Rank ==
    /\ pc = "rank"
    /\ matches' = rank(results, top_k)
    /\ IF output_dir = "None" /\ ~embed_images
       THEN /\ Return(matches')
       ELSE IF output_dir = "None"
       THEN /\ Raise("TypeError")
            /\ UNCHANGED ret
       ELSE /\ pc' = "materialize"
            /\ UNCHANGED <<outcome, ret>>
    /\ UNCHANGED <<selfie_path, photos, exclude_files, top_k, output_dir,
                   embed_images, cancelled, selfie_encoding,
                   exclude_encodings, i, fut, collected, results, idx,
                   saved_results, files, now, run, submitted, overwritten, step_log,
                   app>>

(***************************************************************************)
(* find_similar_faces, lines 179-227: the materialization loop.            *)
(***************************************************************************)
\* What the environment does to one match: shutil.copy2 raises, or the copy
\* succeeds and the thumbnail code raises, or both succeed.
StepOutcomes ==
    IF embed_images THEN {"copy_fails", "thumb_fails", "ok"}
    ELSE {"copy_fails", "ok"}

\* Lines 191-196 and 216-217: the record of one match.
result_item(orig_path, name, score, has_uri) ==
    [original |-> orig_path, saved |-> name, score |-> score,
     data_uri |-> has_uri]

\* Line 189: shutil.copy2 writes (or overwrites) the snapshot file.
copy2(area, orig_path, name) ==
    {f \in area : f.name # name} \cup
        {[name |-> name, original |-> orig_path, run |-> run]}

\* A variant of append_item that drops the match when the thumbnail fails.
append_item_strict(saved, what, orig_path, name, score) ==
    IF what # "ok" THEN saved
    ELSE Append(saved, result_item(orig_path, name, score, embed_images))

\* Lines 181-225: what one iteration leaves in saved_results.  An exception
\* of the copy leaves the loop body through the outer handler (line 224)
\* before the append; an exception of the thumbnail code is caught by the
\* inner handler (line 220) and the record is appended without its data_uri.
append_item(saved, what, orig_path, name, score) ==
    IF what = "copy_fails" THEN saved
    ELSE Append(saved, result_item(orig_path, name, score,
                                   embed_images /\ what = "ok"))

\* Lines 180-225, one iteration: the name from the clock and the index, the
\* copy, the optional thumbnail, the append.
Materialize ==
    /\ pc = "materialize"
    /\ idx < Len(matches)
    /\ \E ts \in now..MaxClock, what \in StepOutcomes :
          LET orig_path == matches[idx + 1][1]
              score == matches[idx + 1][2]
              name == saved_name(ts, idx, Disk[orig_path].suffix)
          IN  /\ now' = ts
              /\ step_log' = Append(step_log, what)
              /\ saved_results' =
                    append_item(saved_results, what, orig_path, name, score)
              /\ IF what = "copy_fails"
                 THEN UNCHANGED <<files, overwritten>>
                 ELSE /\ files' = copy2(files, orig_path, name)
                      /\ overwritten' =
                            IF \E f \in files : f.name = name
                            THEN overwritten \cup {name} ELSE overwritten
    /\ idx' = idx + 1
    /\ UNCHANGED <<selfie_path, photos, exclude_files, top_k, output_dir,
                   embed_images, cancelled, pc, selfie_encoding,
                   exclude_encodings, i, fut, collected, results, matches,
                   run, outcome, ret, submitted, app>>

\* Line 227.
ReturnSaved ==
    /\ pc = "materialize"
    /\ idx = Len(matches)
    /\ Return(saved_results)
    /\ UNCHANGED <<selfie_path, photos, exclude_files, top_k, output_dir,
                   embed_images, cancelled, selfie_encoding,
                   exclude_encodings, i, fut, collected, results, matches,
                   idx, saved_results, files, now, run, submitted,
                   overwritten, step_log, app>>

(***************************************************************************)
(* The caller sets the Event, at any moment of the call.                   *)
(***************************************************************************)
SetCancelled ==
    /\ outcome = "none"
    /\ ~cancelled
    /\ cancelled' = TRUE
    /\ UNCHANGED <<selfie_path, photos, exclude_files, top_k, output_dir,
                   embed_images, pc, selfie_encoding, exclude_encodings, i,
                   fut, collected, results, matches, idx, saved_results,
                   files, now, run, outcome, ret, submitted, overwritten, step_log,
                   app>>


(***************************************************************************)
(* The caller calls find_similar_faces again, with the same arguments and  *)
(* the same output area.  Tasks of the earlier call's pools are no longer  *)
(* tracked.                                                                *)
(***************************************************************************)
CallAgain ==
    /\ pc = "done"
    /\ run < MaxRuns
    /\ run' = run + 1
    /\ pc' = "start"
    /\ outcome' = "none"
    /\ ret' = <<>>
    /\ cancelled' = FALSE
    /\ selfie_encoding' = 0
    /\ exclude_encodings' = <<>>
    /\ i' = 0
    /\ fut' = [p \in Candidates |-> "none"]
    /\ collected' = {}
    /\ results' = <<>>
    /\ matches' = <<>>
    /\ idx' = 0
    /\ saved_results' = <<>>
    /\ submitted' = [p \in Candidates |-> 0]
    /\ step_log' = <<>>
    /\ UNCHANGED <<selfie_path, photos, exclude_files, top_k, output_dir,
                   embed_images, files, now, overwritten, app>>

Next ==
    \/ LoadSelfie
    \/ BatchStart
    \/ \E p \in Candidates : WorkerStart(p)
    \/ \E p \in Candidates : WorkerFinish(p)
    \/ \E p \in Candidates : Collect(p)
    \/ BatchEnd
    \/ Rank
    \/ Materialize
    \/ ReturnSaved
    \/ SetCancelled

Spec == Init /\ [][Next]_vars

(***************************************************************************)
(* The call under the scheduling the code relies on: the coordinator       *)
(* thread keeps running, the pool starts a queued task when a process is   *)
(* free, and every started task ends.  The caller is free never to set the *)
(* flag.                                                                   *)
(***************************************************************************)
Fairness ==
    /\ WF_vars(LoadSelfie)
    /\ WF_vars(BatchStart)
    /\ WF_vars(BatchEnd)
    /\ WF_vars(Rank)
    /\ WF_vars(Materialize)
    /\ WF_vars(ReturnSaved)
    /\ \A p \in Candidates :
          /\ WF_vars(WorkerStart(p))
          /\ WF_vars(WorkerFinish(p))
          /\ WF_vars(Collect(p))

FairSpec == Spec /\ Fairness

(***************************************************************************)
(* Two calls in a row on one output area, from a query image with a face.  *)
(***************************************************************************)
InitRerun ==
    /\ Init
    /\ selfie_path = "S2"
    /\ output_dir = "out"
    /\ top_k = MaxTopK
    /\ exclude_files = <<>>

NextRerun ==
    \/ Next
    \/ CallAgain

SpecRerun == InitRerun /\ [][NextRerun]_vars

(***************************************************************************)
(* app.py, api_search (lines 34-121): one POST /api/search.  The request   *)
(* calls find_similar_faces without an Event, with tmp_results_dir as      *)
(* output_dir and embed_images=True.                                       *)
(***************************************************************************)
InitApp ==
    /\ selfie_path \in Selfies
    /\ photos \in Corpora
    /\ exclude_files \in ExcludeDirs
    /\ top_k = DefaultTopK
    /\ output_dir = "out"
    /\ embed_images = TRUE
    /\ cancelled = FALSE
    /\ pc = "idle"
    /\ selfie_encoding = 0
    /\ exclude_encodings = <<>>
    /\ i = 0
    /\ fut = [p \in Candidates |-> "none"]
    /\ collected = {}
    /\ results = <<>>
    /\ matches = <<>>
    /\ idx = 0
    /\ saved_results = <<>>
    /\ files = {}
    /\ now = 1
    /\ run = 1
    /\ outcome = "none"
    /\ ret = <<>>
    /\ submitted = [p \in Candidates |-> 0]
    /\ overwritten = {}
    /\ step_log = <<>>
    /\ \E part \in SelfieParts, field \in TopKFields :
          app = [NoRequest EXCEPT !.stage = "received",
                                  !.selfie_file = part,
                                  !.top_k_field = field]

\* Lines 36-48: the three rejections, else the two mkdtemp calls.
Validate ==
    /\ app.stage = "received"
    /\ IF \/ app.selfie_file = <<>>
          \/ app.selfie_file = <<"", "">>
          \/ ~allowed_file(app.selfie_file)
       THEN app' = [app EXCEPT !.status = 400, !.stage = "responded"]
       ELSE app' = [app EXCEPT !.created = TempDirs, !.dirs = TempDirs,
                               !.stage = "try"]
    /\ UNCHANGED <<selfie_path, photos, exclude_files, top_k, output_dir,
                   embed_images, cancelled, pc, selfie_encoding,
                   exclude_encodings, i, fut, collected, results, matches,
                   idx, saved_results, files, now, run, outcome, ret,
                   submitted, overwritten, step_log>>

\* Lines 51-71: the upload is saved, top_k is parsed and find_similar_faces
\* is entered; a save that raises goes to the handler of lines 108-110.
CallSearch ==
    /\ app.stage = "try"
    /\ \E saved \in BOOLEAN :
          IF saved
          THEN /\ top_k' = parse_top_k(app.top_k_field)
               /\ pc' = "start"
               /\ app' = [app EXCEPT !.stage = "search"]
          ELSE /\ app' = [app EXCEPT !.status = 500, !.stage = "finally"]
               /\ UNCHANGED <<top_k, pc>>
    /\ UNCHANGED <<selfie_path, photos, exclude_files, output_dir,
                   embed_images, cancelled, selfie_encoding,
                   exclude_encodings, i, fut, collected, results, matches,
                   idx, saved_results, files, now, run, outcome, ret,
                   submitted, overwritten, step_log>>

\* Lines 73-104: the records that carry a data URI, or whose snapshot file
\* can be read from tmp_results_dir.
response_matches(saved) ==
    LET keep(r) == r.data_uri \/ \E f \in files : f.name = r.saved
        RECURSIVE build(_)
        build(n) ==
            IF n = 0 THEN <<>>
            ELSE IF keep(saved[n])
                 THEN Append(build(n - 1),
                             <<saved[n].original, saved[n].score>>)
                 ELSE build(n - 1)
    IN  build(Len(saved))

\* Lines 73-110: find_similar_faces returned (200) or raised (500).
Respond ==
    /\ app.stage = "search"
    /\ pc = "done"
    /\ IF outcome = "returned"
       THEN app' = [app EXCEPT !.status = 200,
                               !.matches = response_matches(ret),
                               !.stage = "finally"]
       ELSE app' = [app EXCEPT !.status = 500, !.stage = "finally"]
    /\ UNCHANGED <<selfie_path, photos, exclude_files, top_k, output_dir,
                   embed_images, cancelled, pc, selfie_encoding,
                   exclude_encodings, i, fut, collected, results, matches,
                   idx, saved_results, files, now, run, outcome, ret,
                   submitted, overwritten, step_log>>

\* shutil.rmtree inside try/except Exception: pass: the directory is gone,
\* or rmtree raised and the directory is still there.
rmtree(a, dir, removed) ==
    [a EXCEPT !.attempted = @ \cup {dir},
              !.dirs = IF removed THEN @ \ {dir} ELSE @,
              !.raised = IF removed THEN @ ELSE @ \cup {dir}]

\* Lines 114-117.
CleanupUpload ==
    /\ app.stage = "finally"
    /\ \E removed \in BOOLEAN :
          app' = [rmtree(app, "tmp_upload_dir", removed)
                     EXCEPT !.stage = "finally_results"]
    /\ UNCHANGED <<selfie_path, photos, exclude_files, top_k, output_dir,
                   embed_images, cancelled, pc, selfie_encoding,
                   exclude_encodings, i, fut, collected, results, matches,
                   idx, saved_results, files, now, run, outcome, ret,
                   submitted, overwritten, step_log>>

\* A variant of CleanupResults for one try around both rmtree calls: the
\* second is skipped when the first raised.
CleanupResults_one_try ==
    /\ app.stage = "finally_results"
    /\ IF "tmp_upload_dir" \in app.raised
       THEN /\ app' = [app EXCEPT !.stage = "responded"]
            /\ UNCHANGED files
       ELSE \E removed \in BOOLEAN :
               /\ app' = [rmtree(app, "tmp_results_dir", removed)
                             EXCEPT !.stage = "responded"]
               /\ IF removed THEN files' = {}
                  ELSE \E left \in SUBSET files : files' = left
    /\ UNCHANGED <<selfie_path, photos, exclude_files, top_k, output_dir,
                   embed_images, cancelled, pc, selfie_encoding,
                   exclude_encodings, i, fut, collected, results, matches,
                   idx, saved_results, now, run, outcome, ret, submitted,
                   overwritten, step_log>>

\* Lines 118-121, then the response leaves.  A removal that raised may have
\* deleted some of the snapshot files before.
CleanupResults ==
    /\ app.stage = "finally_results"
    /\ \E removed \in BOOLEAN :
          /\ app' = [rmtree(app, "tmp_results_dir", removed)
                        EXCEPT !.stage = "responded"]
          /\ IF removed THEN files' = {}
             ELSE \E left \in SUBSET files : files' = left
    /\ UNCHANGED <<selfie_path, photos, exclude_files, top_k, output_dir,
                   embed_images, cancelled, pc, selfie_encoding,
                   exclude_encodings, i, fut, collected, results, matches,
                   idx, saved_results, now, run, outcome, ret, submitted,
                   overwritten, step_log>>

NextApp ==
    \/ Validate
    \/ CallSearch
    \/ LoadSelfie
    \/ BatchStart
    \/ \E p \in Candidates : WorkerStart(p)
    \/ \E p \in Candidates : WorkerFinish(p)
    \/ \E p \in Candidates : Collect(p)
    \/ BatchEnd
    \/ Rank
    \/ Materialize
    \/ ReturnSaved
    \/ Respond
    \/ CleanupUpload
    \/ CleanupResults

SpecApp == InitApp /\ [][NextApp]_vars


(***************************************************************************)
(* Vocabulary of the properties.                                           *)
(***************************************************************************)
\* The call returns raw (path, score) pairs (line 172), not records.
RawMode == output_dir = "None" /\ ~embed_images

RetPath(j) == IF RawMode THEN ret[j][1] ELSE ret[j].original
RetScore(j) == IF RawMode THEN ret[j][2] ELSE ret[j].score
RetPaths == {RetPath(j) : j \in DOMAIN ret}

\* The query image decodes and has a face.
QueryHasFace ==
    Disk[selfie_path].load = "ok" /\ Disk[selfie_path].encs # <<>>

\* The exclusion descriptors: every descriptor of every readable image
\* under exclude_dir.
ExclusionSet ==
    UNION {Range(Disk[x].encs) :
           x \in {y \in Range(exclude_files) : Disk[y].load = "ok"}}

\* Some descriptor of image p is at distance < 0.5 of an exclusion
\* descriptor.
HasExcludedDescriptor(p) ==
    \E e \in Range(Disk[p].encs), x \in ExclusionSet :
        Abs(e - x) < ExcludeThreshold

\* Candidates of the corpus with at least one descriptor and none excluded.
Eligible ==
    {p \in Range(photos) :
        /\ Disk[p].load # "none"
        /\ Disk[p].encs # <<>>
        /\ ~HasExcludedDescriptor(p)}

\* 1 - the least distance of a descriptor of p to the query descriptor.
TrueScore(p) ==
    LET q == Disk[selfie_path].encs[1]
        ds == {Abs(e - q) : e \in Range(Disk[p].encs)}
    IN  100 - (CHOOSE m \in ds : \A d \in ds : m <= d)

\* No worker task of the corpus fails.
NoWorkerFailure ==
    \A p \in Range(photos) : Disk[p].load \notin {"crash", "raises"}

\* The first n ranked matches, in rank order, whose step ended in Kept.
RECURSIVE KeptUpTo(_, _)
KeptUpTo(n, Kept) ==
    IF n = 0 THEN <<>>
    ELSE IF step_log[n] \in Kept
         THEN Append(KeptUpTo(n - 1, Kept), matches[n])
         ELSE KeptUpTo(n - 1, Kept)

RetPairs == [j \in DOMAIN ret |-> <<RetPath(j), RetScore(j)>>]

\* ret is the first min(K, M) entries of a descending ordering of the M
\* eligible candidates, each with its true score.
RetIsTopOfEligible ==
    /\ Len(ret) = Min(top_k, Cardinality(Eligible))
    /\ \A j \in DOMAIN ret :
          RetPath(j) \in Eligible /\ RetScore(j) = TrueScore(RetPath(j))
    /\ \A j, k \in DOMAIN ret :
          j < k => RetPath(j) # RetPath(k) /\ RetScore(j) >= RetScore(k)
    /\ \A p \in Eligible \ RetPaths :
          \A j \in DOMAIN ret : TrueScore(p) <= RetScore(j)

(***************************************************************************)
(* C1.  A call during which the cancellation flag was set still returns a  *)
(* result list, without raising, and with no more results than the         *)
(* uncancelled run has (the top_k best of all worker results).             *)
(***************************************************************************)
C1_CancelledCallReturns ==
    (pc = "done" /\ cancelled /\ QueryHasFace) =>
        /\ outcome = "returned"
        /\ Len(ret) <= Min(top_k, Cardinality(
               {p \in Range(photos) :
                   future_result(p, selfie_encoding, exclude_encodings)
                       # None}))

(***************************************************************************)
(* C2.  The returned sequence, raw or materialized, is no longer than K    *)
(* and no longer than the number of candidates with at least one           *)
(* descriptor and none excluded.                                           *)
(***************************************************************************)
C2_ResultLengthBounded ==
    outcome = "returned" =>
        /\ Len(ret) <= top_k
        /\ Len(ret) <= Cardinality(Eligible)

\* A return where the ranking cut results off.
C2_Witness ==
    /\ outcome = "returned"
    /\ top_k > 0
    /\ Len(ret) = top_k
    /\ Len(results) > top_k

(***************************************************************************)
(* C3.  No returned match comes from an image with a descriptor at         *)
(* distance < 0.5 of an exclusion descriptor.                              *)
(***************************************************************************)
C3_NoExcludedMatch ==
    outcome = "returned" =>
        \A j \in DOMAIN ret : ~HasExcludedDescriptor(RetPath(j))

\* A complete run over a corpus holding D, whose second face is 0.49 from
\* an exclusion descriptor, with K large enough to keep every match.
C3_Witness ==
    /\ outcome = "returned"
    /\ ~cancelled
    /\ "D" \in Range(photos)
    /\ HasExcludedDescriptor("D")
    /\ top_k >= Len(photos)
    /\ ret # <<>>

(***************************************************************************)
(* C4.  The returned sequence is ordered by non-increasing score, in both  *)
(* return modes.                                                           *)
(***************************************************************************)
C4_ResultSortedDescending ==
    outcome = "returned" =>
        \A j, k \in DOMAIN ret : j < k => RetScore(j) >= RetScore(k)

\* A cancelled, materialized return that lost a ranked match and still holds
\* two matches of different scores.
C4_Witness ==
    /\ outcome = "returned"
    /\ ~RawMode
    /\ cancelled
    /\ Len(ret) >= 2
    /\ Len(ret) < Len(matches)
    /\ RetScore(1) > RetScore(2)

(***************************************************************************)
(* C5.  With a query image that cannot be decoded or has no face, the call *)
(* never returns a result: it ends in the fatal error, with no candidate   *)
(* submitted to a worker and nothing written to the output area.           *)
(***************************************************************************)
C5_QueryFailureIsFatal ==
    ~QueryHasFace =>
        /\ outcome # "returned"
        /\ pc = "done" =>
              outcome = (IF Disk[selfie_path].load = "ok"
                         THEN "ValueError: No face found in selfie image"
                         ELSE "ValueError: Failed to load selfie image")
        /\ \A p \in Candidates : submitted[p] = 0 /\ fut[p] = "none"
        /\ files = {}

\* The call ended on a query image without a face, with a corpus to search
\* and an output area to write to.
C5_Witness ==
    /\ pc = "done"
    /\ selfie_path = "S1"
    /\ outcome = "ValueError: No face found in selfie image"
    /\ photos # <<>>
    /\ output_dir = "out"

(***************************************************************************)
(* C6.  A second call on the same corpus and output area never overwrites  *)
(* a snapshot file the first call wrote.                                   *)
(***************************************************************************)
C6_NoSnapshotOverwritten == overwritten = {}

(***************************************************************************)
(* C7.  A call whose query image has a face ends with a returned result    *)
(* list, whatever the parameters and the failures of candidates and        *)
(* matches.                                                                *)
(***************************************************************************)
C7_OnlyQueryFailuresAreFatal ==
    (pc = "done" /\ QueryHasFace) => outcome = "returned"

(***************************************************************************)
(* C8.  As claimed: an uncancelled run without worker failures returns     *)
(* exactly the first min(K, M) entries of the descending ordering of the M *)
(* eligible candidates, each with its score.                               *)
(***************************************************************************)
C8_Original ==
    (outcome = "returned" /\ ~cancelled /\ NoWorkerFailure) =>
        RetIsTopOfEligible

(***************************************************************************)
(* C8, amended.  An uncancelled run without worker failures and without a  *)
(* failed copy during materialization returns exactly the first min(K, M)  *)
(* entries of the descending ordering of the M eligible candidates, each   *)
(* with score 1 - its least distance to the query descriptor.              *)
(***************************************************************************)
C8_TopKOfEligible ==
    (/\ outcome = "returned"
     /\ ~cancelled
     /\ NoWorkerFailure
     /\ "copy_fails" \notin Range(step_log)) =>
        RetIsTopOfEligible

\* The scenario of the specification, materialized: corpus A, B, C, K = 2.
C8_Witness ==
    /\ outcome = "returned"
    /\ ~cancelled
    /\ ~RawMode
    /\ photos = <<"A", "B", "C">>
    /\ top_k = 2
    /\ RetPairs = << <<"A", 90>>, <<"C", 70>> >>

(***************************************************************************)
(* C9.  With K = 0 the call returns an empty sequence without raising and  *)
(* copies no snapshot file, for any corpus and output configuration.       *)
(***************************************************************************)
C9_ZeroKReturnsEmpty ==
    (pc = "done" /\ top_k = 0 /\ QueryHasFace) =>
        /\ outcome = "returned"
        /\ ret = <<>>
        /\ files = {}

AfterScheduler ==
    \/ pc \in {"rank", "materialize"}
    \/ pc = "done" /\ QueryHasFace

ResultPaths == {results[j][1] : j \in DOMAIN results}

\* The first n candidates of the listing.
FirstPhotos(n) == {photos[j] : j \in 1..Min(n, Len(photos))}

\* A candidate whose task returns a match: it decodes, no step of its task
\* fails, it has a face and none of its faces is excluded.
Healthy(p) == p \in Eligible /\ Disk[p].load = "ok"

\* The tasks submitted and not finished, and those a pool process runs.
Unfinished == {p \in Candidates : fut[p] \in {"pending", "running"}}
Running == {p \in Candidates : fut[p] = "running"}
Submitted == {p \in Candidates : submitted[p] > 0}

(***************************************************************************)
(* C11.  In an uncancelled run process_image_batch submits every candidate *)
(* exactly once, returns at most N results with no path twice, and         *)
(* returns once every task has ended (under the scheduling of FairSpec the *)
(* call always leaves the scheduler).                                      *)
(***************************************************************************)
C11_EveryCandidateOnce ==
    /\ [](\A p \in Candidates : submitted[p] <= 1)
    /\ []((AfterScheduler /\ ~cancelled) =>
            /\ Submitted = Range(photos)
            /\ Len(results) <= Len(photos)
            /\ \A j, k \in DOMAIN results :
                  j # k => results[j][1] # results[k][1])
    /\ <>(pc \notin {"start", "batch", "collect"})

\* An uncancelled run over a corpus whose last batch is short, with a
\* result from every candidate.
C11_Witness ==
    /\ AfterScheduler
    /\ ~cancelled
    /\ Len(photos) = BatchSize + 1
    /\ Len(results) = Len(photos)

C13_BatchesDoNotOverlap ==
    /\ Cardinality(Unfinished) <= BatchSize
    /\ Cardinality(Running) <= MaxWorkers
    /\ Unfinished \subseteq batch_of(photos, i)
    /\ \E n \in 0..Len(photos) : Submitted = FirstPhotos(n)
    /\ \A p \in Submitted \ batch_of(photos, i) : fut[p] = "done"

\* The second batch is being collected, a task of it running, with the
\* first batch done.
C13_Witness ==
    /\ pc = "collect"
    /\ i > 0
    /\ Running # {}
    /\ \A p \in FirstPhotos(i) : fut[p] = "done"


\* The scheduler returned at the head of the loop with batches left: it saw
\* the flag set there.
ExitedAtBoundary ==
    /\ AfterScheduler
    /\ i < Len(photos)
    /\ batch_of(photos, i) \cap Submitted = {}

\* The scheduler returned from inside the collection of the batch at i.
ExitedWhileCollecting ==
    /\ AfterScheduler
    /\ i < Len(photos)
    /\ batch_of(photos, i) \subseteq Submitted

(***************************************************************************)
(* C14.  The head of the batch loop submits nothing when it finds the flag *)
(* set, and nothing is submitted after the scheduler has returned.  When   *)
(* the scheduler returned at a batch boundary, the submitted candidates    *)
(* are those of the batches before it and the accumulated list holds       *)
(* exactly their results: none at all before the first batch.              *)
(***************************************************************************)
C14_NoSubmitAfterCancelSeen ==
    /\ [][(cancelled /\ pc = "batch") => submitted' = submitted]_vars
    /\ [][AfterScheduler => submitted' = submitted]_vars
    /\ [](ExitedAtBoundary =>
            /\ Submitted = FirstPhotos(i)
            /\ ResultPaths = {p \in FirstPhotos(i) : Healthy(p)}
            /\ Len(results) = Cardinality(ResultPaths)
            /\ i = 0 => results = <<>>)

\* A call that returned after the flag was seen set at the second batch
\* boundary, with results of the first batch.
C14_Witness ==
    /\ ExitedAtBoundary
    /\ cancelled
    /\ i > 0
    /\ results # <<>>
    /\ outcome = "returned"

(***************************************************************************)
(* C15.  While a batch is collected with the flag set, no result is        *)
(* appended; after the scheduler has returned the accumulated list never   *)
(* changes.  The list holds exactly the results of the earlier batches and *)
(* of the futures collected so far, and the returned matches come from it: *)
(* a task still in flight at the return never reaches any output.          *)
(***************************************************************************)
C15_InFlightResultsDiscarded ==
    /\ [][(cancelled /\ pc = "collect") => results' = results]_vars
    /\ [][AfterScheduler => results' = results]_vars
    /\ []((pc # "start" /\ QueryHasFace) =>
            ResultPaths = {p \in FirstPhotos(i) \cup collected : Healthy(p)})
    /\ [](outcome = "returned" => RetPaths \subseteq ResultPaths)

\* A call that returned after the flag was seen while the first batch was
\* collected: one future was collected before, the task of another has
\* ended since and would have given a match.
C15_Witness ==
    /\ ExitedWhileCollecting
    /\ outcome = "returned"
    /\ collected # {}
    /\ ret # <<>>
    /\ \E p \in batch_of(photos, i) \ collected :
          Healthy(p) /\ fut[p] = "done"

(***************************************************************************)
(* C16.  The ranking keeps results of equal score in arrival order: of two *)
(* ranked matches of equal score the one appended first comes first, and a *)
(* result cut off by the truncation arrived after every ranked match of    *)
(* its score.                                                              *)
(***************************************************************************)
ArrivalOf(m) == CHOOSE j \in DOMAIN results : results[j] = m

C16_TiesKeepArrivalOrder ==
    /\ \A j, k \in DOMAIN matches :
          (j < k /\ matches[j][2] = matches[k][2]) =>
              ArrivalOf(matches[j]) < ArrivalOf(matches[k])
    /\ \A j \in DOMAIN matches, r \in DOMAIN results :
          (results[r] \notin Range(matches) /\ results[r][2] = matches[j][2])
              => ArrivalOf(matches[j]) < r

\* D arrived before C, both with score 0.70, and K = 1 kept D.
C16_Witness ==
    /\ results = << <<"D", 70>>, <<"C", 70>> >>
    /\ top_k = 1
    /\ matches = << <<"D", 70>> >>
    /\ outcome = "returned"

(***************************************************************************)
(* C17.  Only the caller changes the cancellation flag, and only by        *)
(* setting it: once set it stays set to the end of the call.  Only the     *)
(* coordinator's collection step changes the accumulated list.             *)
(***************************************************************************)
C17_FlagOnlyRead ==
    /\ [][cancelled' # cancelled => SetCancelled]_vars
    /\ [][cancelled => cancelled']_vars
    /\ [][results' # results => \E p \in Candidates : Collect(p)]_vars

\* The call returned with the flag still set, after the flag was seen at a
\* batch boundary and every task had ended.
C17_Witness ==
    /\ pc = "done"
    /\ outcome = "returned"
    /\ cancelled
    /\ ExitedAtBoundary
    /\ Unfinished = {}

(***************************************************************************)
(* C18.  Within one call the index in a snapshot name is the 0-based rank  *)
(* of its match, also after an earlier match was dropped; the names of the *)
(* returned records are pairwise distinct and no copy of the call lands on *)
(* a snapshot file the call already wrote.                                 *)
(***************************************************************************)
C18_NameCarriesRankIndex ==
    /\ \A j \in DOMAIN saved_results :
          \E n \in DOMAIN matches :
             /\ matches[n][1] = saved_results[j].original
             /\ saved_results[j].saved[3] = n - 1
    /\ \A j, k \in DOMAIN saved_results :
          j # k => saved_results[j].saved # saved_results[k].saved
    /\ \A f \in files :
          \E n \in DOMAIN matches :
             matches[n][1] = f.original /\ f.name[3] = n - 1
    /\ overwritten = {}

\* The first ranked match was dropped and the second keeps index 1.
C18_Witness ==
    /\ outcome = "returned"
    /\ Len(step_log) >= 2
    /\ step_log[1] = "copy_fails"
    /\ ret # <<>>
    /\ ret[1].saved[3] = 1


=============================================================================
